---- MODULE Spec2Model ----
(***************************************************************************)
(* Calendar agent: request classification, dispatch and the create /      *)
(* modify / delete handlers of google_calendar_agent.py, together with    *)
(* the Streamlit pages of calendar_agent_ui.py that call the handlers     *)
(* directly.                                                              *)
(*                                                                         *)
(* One request is in progress at a time.  Every remote call (to the model *)
(* service or to the calendar service) is one step: the step issues the   *)
(* call, draws its outcome and runs the code up to the next remote call   *)
(* or up to the return / raise that ends the request.                     *)
(*                                                                         *)
(* Environment:                                                           *)
(*  - a model call either returns a value of the requested schema or      *)
(*    fails (run_model or json.loads raises);                             *)
(*  - a calendar call either succeeds or fails with HttpError, the        *)
(*    failure of the calendar service on a rejected request;              *)
(*  - confidence scores are kept in tenths (7 stands for 0.7);            *)
(*  - an event returned by list always has an id; it is "full" when it    *)
(*    also has summary, start.dateTime and end.dateTime (an all-day or    *)
(*    untitled event is not full);                                        *)
(*  - a draft returned for the new-event schema carries the fields the    *)
(*    schema requires.                                                    *)
(***************************************************************************)
EXTENDS Integers, Sequences, FiniteSets, TLC

\* ------------------------------------------------------------------
\* Bounds and constants
\* ------------------------------------------------------------------

\* largest number of events a list call returns
MaxEvents == 2

\* the confidence gate, 0.7, in tenths
Threshold == 7

\* confidence scores the model may return, in tenths
ConfValues == {6, 7, 8}

EventKinds == {"new_event", "modify_event", "delete_event", "other"}

\* calendar id every caller in the repository supplies
CallerCalendar == "primary"

\* calendar ids the model may put into the list parameters
CalIds == {"primary", "work"}

\* optional keys of EventsListParameters
OptKeys == {"timeMin", "timeMax", "singleEvents", "orderBy", "q"}

\* key sets the model returns for the list parameters
FilterKeySets == {OptKeys, {"timeMin", "q"}, {}}

\* fields of NewEventDetails
EventFields == {"summary", "location", "description", "start", "end",
                "recurrence", "attendees"}

\* values the model returns for a new event (recurrence has a default)
CreateDrafts == {EventFields, EventFields \ {"recurrence"}}

\* values the model returns for a modification
ModifyChanges == {{"summary"}, {"start", "end"}, EventFields}

\* lines the user may type at the prompt of the command line loop
Lines == {"quit", "Exit", " q ", "", "  ", "delete the standup"}

\* words that end the command line loop
QuitWords == {"quit", "exit", "q"}

\* what Credentials.from_authorized_user_file may give for a stored token
StoredStates == {"valid", "expired", "unusable"}

\* answers the user may type at the confirmation prompt
Answers == {"y", "Y", "n", "yes", ""}

EventIds == 1..MaxEvents

Event == [id : EventIds, full : BOOLEAN]

\* ordered results of a list call: distinct ids, any order
EventLists ==
  {s \in UNION {[1..n -> Event] : n \in 0..MaxEvents} :
     \A i, j \in 1..Len(s) : i # j => s[i].id # s[j].id}

VARIABLES
  pc,        \* position of the request in progress
  entry,     \* entry point of the request in progress
  cls,       \* result of check_if_calendar_event
  rtype,     \* result of determine_calendar_request_type
  handlers,  \* operation handlers started by this request, in order
  allFlag,   \* the "all" argument of delete_event
  params,    \* events_list_parameters returned by get_calendar_events
  listed,    \* "no": list not called, "ok": returned, "err": HttpError
  events,    \* items returned by list
  confirmed, \* "no": not asked, "yes" / "refused": answer at the prompt
  typed,     \* the line typed at the prompt
  idx,       \* position of the delete-all loop
  lines,     \* calResponseMessage, one record per line
  payload,   \* value returned by the model for the insert or patch body
  calls,     \* calendar adapter calls of this request, in order
  mcalls,    \* model adapter calls of this request, in order
  result,    \* what the entry point's call returned or raised
  terminal,  \* what the command line loop has printed after its requests
  run,       \* the command line program: where it is, the credentials it
             \* holds, whether it reached its loop, the last line it read
  token      \* token.json: "absent" or "present"

vars == <<pc, entry, cls, rtype, handlers, allFlag, params, listed, events,
          confirmed, typed, idx, lines, payload, calls, mcalls, result,
          terminal, run, token>>

\* ------------------------------------------------------------------
\* Values
\* ------------------------------------------------------------------

NoCls == [made |-> FALSE, is |-> FALSE, conf |-> 0]
NoType == [made |-> FALSE, kind |-> "other", conf |-> 0]
NoParams == [made |-> FALSE, calendarId |-> "", keys |-> {}]

\* no value yet: the request is in progress, or a page refused it
Pending == [kind |-> "pending", success |-> FALSE, tag |-> "", lines |-> <<>>]
NoneResult == [kind |-> "None", success |-> FALSE, tag |-> "", lines |-> <<>>]

\* get_calendar_events returns the parameters the model produced
ParamsResult == [kind |-> "Params", success |-> FALSE, tag |-> "", lines |-> <<>>]

CalendarResponse(success, tag, ls) ==
  [kind |-> "Outcome", success |-> success, tag |-> tag, lines |-> ls]

Raised(exc) == [kind |-> "raise", success |-> FALSE, tag |-> exc, lines |-> <<>>]

CalCall(op, cal, target, body, ok) ==
  [op |-> op, cal |-> cal, target |-> target, body |-> body, ok |-> ok]

ModelCall(task, ok) == [task |-> task, ok |-> ok]

\* ------------------------------------------------------------------
\* Pure parts of the code
\* ------------------------------------------------------------------

PassesGateAtLeast(conf) == conf >= Threshold

PassesGate(conf) == conf > Threshold

IsCalendarRequestAnyScore(c) == c.is

IsCalendarRequest(c) == c.is /\ PassesGate(c.conf)

RouteSwapped(t) ==
  IF t.kind = "new_event" /\ PassesGate(t.conf) THEN "create"
  ELSE IF t.kind = "modify_event" /\ PassesGate(t.conf) THEN "delete"
  ELSE IF t.kind = "delete_event" /\ PassesGate(t.conf) THEN "modify"
  ELSE "none"

Route(t) ==
  IF t.kind = "new_event" /\ PassesGate(t.conf) THEN "create"
  ELSE IF t.kind = "modify_event" /\ PassesGate(t.conf) THEN "modify"
  ELSE IF t.kind = "delete_event" /\ PassesGate(t.conf) THEN "delete"
  ELSE "none"

\* first position of the handler named h
FirstStep(h) ==
  IF h = "create" THEN "create_extract"
  ELSE IF h = "modify" THEN "modify_params"
  ELSE IF h = "search" THEN "search_params"
  ELSE "delete_params"

\* delete_event subscripts every optional key of the parameters
DeleteKeysPresent(p) == OptKeys \subseteq p.keys

\* the f-strings at lines 357, 374, 380, 433 and 494 subscript
\* summary, start.dateTime and end.dateTime
AllFull(evs) == \A i \in 1..Len(evs) : evs[i].full

Lower(s) == IF s = "Y" THEN "y" ELSE IF s = "Exit" THEN "exit" ELSE s

Strip(s) == IF s = " q " THEN "q" ELSE IF s = "  " THEN "" ELSE s

IsQuit(line) == Lower(Strip(line)) \in QuitWords

IsBlank(line) == Strip(line) = ""

\* "if not creds or not creds.valid": c is "none" when no token is stored
NeedsLogin(c) == c # "valid"

\* the banner and the loop are indented under the test of NeedsLogin:
\* they run only in a run that had to log in or refresh
LoopRuns(c) == NeedsLogin(c)

IsConfirmedNotNo(answer) == Lower(answer) # "n"

IsConfirmed(answer) == Lower(answer) = "y"

MatchVerdictLoose(n) ==
  IF n = 0 THEN "NoEvents" ELSE IF n > 2 THEN "Multiple" ELSE "one"

MatchVerdict(n) ==
  IF n = 0 THEN "NoEvents" ELSE IF n > 1 THEN "Multiple" ELSE "one"

DeleteLine(e, ok) == [id |-> e.id, failed |-> ~ok]

\* the event delete_event's single mode names in its line: the variable
\* "event" left bound by the loop that printed the matches
LeftoverEvent(evs) == evs[Len(evs)]

SingleTargetLast(evs) == evs[Len(evs)]

SingleTarget(evs) == evs[1]

DeleteAllDoneOnFailure(i, n, ok) == i >= n \/ ~ok

DeleteAllDone(i, n, ok) == i >= n

\* ------------------------------------------------------------------
\* Return values of the handlers
\* ------------------------------------------------------------------

HttpErrorOutcomeAsSuccess == CalendarResponse(TRUE, "HttpError", <<>>)

\* "An error occurred: {error}" (create, delete_event_by_id, both lists)
HttpErrorOutcome == CalendarResponse(FALSE, "HttpError", <<>>)

CreatedOutcome == CalendarResponse(TRUE, "Created", <<>>)

NotConfirmedOutcome == CalendarResponse(FALSE, "NotConfirmed", <<>>)

DeletedOutcome(ls) == CalendarResponse(TRUE, "Deleted", ls)

NoEventsOutcome == CalendarResponse(FALSE, "NoEvents", <<>>)

MultipleOutcome == CalendarResponse(FALSE, "Multiple", <<>>)

PatchErrorOutcome == CalendarResponse(FALSE, "PatchHttpError", <<>>)

ModifiedOutcome == CalendarResponse(TRUE, "Modified", <<>>)

\* the line the command line loop prints for the value r of the dispatcher:
\* the message of a successful response, else one fixed text (the string
\* at line 576 is not an f-string and names no field of r)
Report(r) ==
  IF r.kind = "Outcome" /\ r.success
    THEN [text |-> "Successfully executed event", message |-> r.tag]
    ELSE [text |-> "Failed to execute event: {result.message}", message |-> ""]

\* a classification call that failed, swallowed as "not understood"
ModelFailureAsDrop == NoneResult

\* the exception of a failed model call leaves the function that made
\* the call: no function of the module catches it
ModelFailure == Raised("ModelError")

\* the value of delete_event's "all" parameter when the caller gives none
DefaultAllTrue == TRUE

DefaultAll == FALSE

\* ------------------------------------------------------------------
\* Steps
\* ------------------------------------------------------------------

\* the command line program before its first run
NotStarted == [at |-> "off", creds |-> "none", reached |-> FALSE, line |-> ""]

Init ==
  /\ pc = "idle"
  /\ entry = "none"
  /\ cls = NoCls
  /\ rtype = NoType
  /\ handlers = <<>>
  /\ allFlag = FALSE
  /\ params = NoParams
  /\ listed = "no"
  /\ events = <<>>
  /\ confirmed = "no"
  /\ typed = ""
  /\ idx = 0
  /\ lines = <<>>
  /\ payload = {}
  /\ calls = <<>>
  /\ mcalls = <<>>
  /\ result = Pending
  /\ terminal = {}
  /\ run = NotStarted
  /\ token = "absent"

\* a request starts from nothing: no state is kept across requests, and
\* what was printed stays on the terminal
Fresh ==
  /\ cls' = NoCls
  /\ rtype' = NoType
  /\ params' = NoParams
  /\ listed' = "no"
  /\ events' = <<>>
  /\ confirmed' = "no"
  /\ typed' = ""
  /\ idx' = 0
  /\ lines' = <<>>
  /\ payload' = {}
  /\ calls' = <<>>
  /\ mcalls' = <<>>
  /\ result' = Pending
  /\ terminal' = terminal

\* no request is in progress: nothing was asked yet, the loop has printed
\* its report, a page has shown its handler's value or error, or the
\* exception of the request has ended the command line program
Between ==
  \/ pc \in {"idle", "reported", "crashed"}
  \/ pc = "done" /\ entry = "page"

\* main up to its loop: the stored token is read; a run that finds no valid
\* credentials refreshes or logs in, writes token.json and enters the
\* loop; a run that finds valid credentials returns
MainStart ==
  /\ run.at \in {"off", "ended"}
  /\ Between
  /\ \E c \in (IF token = "absent" THEN {"none"} ELSE StoredStates),
        authorized \in BOOLEAN :
       IF NeedsLogin(c)
         THEN IF authorized
                THEN /\ token' = "present"
                     /\ run' = [at |-> IF LoopRuns(c) THEN "loop" ELSE "ended",
                                creds |-> "valid",
                                reached |-> LoopRuns(c),
                                line |-> ""]
                ELSE /\ token' = token
                     /\ run' = [at |-> "ended", creds |-> "none",
                                reached |-> FALSE, line |-> ""]
         ELSE /\ token' = token
              /\ run' = [at |-> IF LoopRuns(c) THEN "loop" ELSE "ended",
                         creds |-> "valid",
                         reached |-> LoopRuns(c),
                         line |-> ""]
  /\ UNCHANGED <<pc, entry, cls, rtype, handlers, allFlag, params, listed,
                 events, confirmed, typed, idx, lines, payload, calls,
                 mcalls, result, terminal>>

\* the loop reads a line at its prompt
AtPrompt == run.at = "loop" /\ Between

\* main: 'quit', 'exit' or 'q' ends the loop
MainQuit ==
  /\ AtPrompt
  /\ \E l \in Lines :
       /\ IsQuit(l)
       /\ run' = [run EXCEPT !.at = "ended", !.line = l]
  /\ UNCHANGED <<pc, entry, cls, rtype, handlers, allFlag, params, listed,
                 events, confirmed, typed, idx, lines, payload, calls,
                 mcalls, result, terminal, token>>

\* main: an empty line is refused and the loop prompts again
MainEmpty ==
  /\ AtPrompt
  /\ \E l \in Lines :
       /\ ~IsQuit(l)
       /\ IsBlank(l)
       /\ run' = [run EXCEPT !.line = l]
  /\ UNCHANGED <<pc, entry, cls, rtype, handlers, allFlag, params, listed,
                 events, confirmed, typed, idx, lines, payload, calls,
                 mcalls, result, terminal, token>>

\* main: an exception of process_calendar_request ends the program
MainCrash ==
  /\ pc = "done"
  /\ entry = "dispatcher"
  /\ result.kind = "raise"
  /\ pc' = "crashed"
  /\ run' = [run EXCEPT !.at = "ended"]
  /\ UNCHANGED <<entry, cls, rtype, handlers, allFlag, params, listed,
                 events, confirmed, typed, idx, lines, payload, calls,
                 mcalls, result, terminal, token>>

\* the request ends with the value r
Finish(r) == pc' = "done" /\ result' = r

\* process_calendar_request is called by the command line loop with a
\* line that is neither a quit word nor empty
StartDispatcher ==
  /\ AtPrompt
  /\ \E l \in Lines :
       /\ ~IsQuit(l)
       /\ ~IsBlank(l)
       /\ run' = [run EXCEPT !.line = l]
  /\ token' = token
  /\ Fresh
  /\ entry' = "dispatcher"
  /\ handlers' = <<>>
  /\ allFlag' = FALSE
  /\ pc' = "check"

\* a page's button is pressed: a blank description is refused with an
\* error message, any other starts the handler named h
PressButton(h, blank, all) ==
  /\ Between
  /\ Fresh
  /\ UNCHANGED <<run, token>>
  /\ entry' = "page"
  /\ allFlag' = all
  /\ IF blank
       THEN handlers' = <<>> /\ pc' = "done"
       ELSE handlers' = <<h>> /\ pc' = FirstStep(h)

\* show_create_event_page: the "Create Event" button
CreatePage == \E blank \in BOOLEAN : PressButton("create", blank, FALSE)

\* show_modify_event_page: the "Find Event to Modify" button
ModifyPage == \E blank \in BOOLEAN : PressButton("modify", blank, FALSE)

\* show_delete_event_page: the "Delete Event" button and its checkbox
DeletePage ==
  \E blank \in BOOLEAN, delete_all \in BOOLEAN :
    PressButton("delete", blank, delete_all)

\* show_search_events_page: the "Search Events" button; a blank query is
\* replaced by "all events"
SearchPage == PressButton("search", FALSE, FALSE)

\* get_calendar_events called by the search page: one model call, and the
\* parameters it produced are the value returned
GetCalendarEvents ==
  /\ pc = "search_params"
  /\ \E ok \in BOOLEAN :
       /\ mcalls' = Append(mcalls, ModelCall("list_parameters", ok))
       /\ IF ~ok
            THEN Finish(ModelFailure) /\ params' = params
            ELSE \E cal \in CalIds, ks \in FilterKeySets :
                   /\ params' = [made |-> TRUE, calendarId |-> cal, keys |-> ks]
                   /\ Finish(ParamsResult)
  /\ UNCHANGED <<terminal, entry, cls, rtype, handlers, allFlag, listed,
                 events, confirmed, typed, idx, lines, payload, calls, run,
                 token>>

\* main: the report printed after process_calendar_request has returned
MainReport ==
  /\ pc = "done"
  /\ entry = "dispatcher"
  /\ result.kind \in {"None", "Outcome"}
  /\ terminal' = terminal \cup {[of |-> [kind |-> result.kind,
                                          success |-> result.success],
                                  shown |-> Report(result)]}
  /\ pc' = "reported"
  /\ UNCHANGED <<entry, cls, rtype, handlers, allFlag, params, listed,
                 events, confirmed, typed, idx, lines, payload, calls,
                 mcalls, result, run, token>>

\* check_if_calendar_event and the first gate of the dispatcher
CheckIfCalendarEvent ==
  /\ pc = "check"
  /\ \E ok \in BOOLEAN :
       /\ mcalls' = Append(mcalls, ModelCall("is_calendar", ok))
       /\ IF ~ok
            THEN /\ Finish(ModelFailure)
                 /\ cls' = cls
            ELSE \E b \in BOOLEAN, c \in ConfValues :
                   /\ cls' = [made |-> TRUE, is |-> b, conf |-> c]
                   /\ IF IsCalendarRequest(cls')
                        THEN pc' = "type" /\ result' = result
                        ELSE Finish(NoneResult)
  /\ UNCHANGED <<terminal, entry, rtype, handlers, allFlag, params, listed,
                 events, confirmed, typed, idx, lines, payload, calls, run,
                 token>>

\* determine_calendar_request_type and the routing of the dispatcher
DetermineCalendarRequestType ==
  /\ pc = "type"
  /\ \E ok \in BOOLEAN :
       /\ mcalls' = Append(mcalls, ModelCall("request_type", ok))
       /\ IF ~ok
            THEN /\ Finish(ModelFailure)
                 /\ UNCHANGED <<rtype, handlers>>
            ELSE \E k \in EventKinds, c \in ConfValues :
                   /\ rtype' = [made |-> TRUE, kind |-> k, conf |-> c]
                   /\ IF Route(rtype') = "none"
                        THEN /\ Finish(NoneResult)
                             /\ handlers' = handlers
                        ELSE /\ handlers' = Append(handlers, Route(rtype'))
                             /\ pc' = FirstStep(Route(rtype'))
                             /\ result' = result
  /\ allFlag' = DefaultAll
  /\ UNCHANGED <<terminal, entry, cls, params, listed, events, confirmed,
                 typed, idx, lines, payload, calls, run, token>>

\* create_new_event: the model call that extracts the new event
CreateExtract ==
  /\ pc = "create_extract"
  /\ \E ok \in BOOLEAN :
       /\ mcalls' = Append(mcalls, ModelCall("new_event", ok))
       /\ IF ~ok
            THEN Finish(ModelFailure) /\ payload' = payload
            ELSE \E d \in CreateDrafts :
                   payload' = d /\ pc' = "create_insert" /\ result' = result
  /\ UNCHANGED <<terminal, entry, cls, rtype, handlers, allFlag, params,
                 listed, events, confirmed, typed, idx, lines, calls, run,
                 token>>

\* create_new_event with an insert that is tried again after an HttpError
CreateInsertRetry ==
  /\ pc = "create_insert"
  /\ \E ok \in BOOLEAN :
       /\ calls' = Append(calls, CalCall("insert", CallerCalendar, 0, payload, ok))
       /\ IF ok
            THEN Finish(CreatedOutcome)
            ELSE pc' = pc /\ result' = result
  /\ UNCHANGED <<terminal, entry, cls, rtype, handlers, allFlag, params,
                 listed, events, confirmed, typed, idx, lines, payload,
                 mcalls, run, token>>

\* create_new_event: the insert call and the return
CreateInsert ==
  /\ pc = "create_insert"
  /\ \E ok \in BOOLEAN :
       /\ calls' = Append(calls, CalCall("insert", CallerCalendar, 0, payload, ok))
       /\ Finish(IF ok THEN CreatedOutcome ELSE HttpErrorOutcome)
  /\ UNCHANGED <<terminal, entry, cls, rtype, handlers, allFlag, params,
                 listed, events, confirmed, typed, idx, lines, payload,
                 mcalls, run, token>>

\* delete_event: get_calendar_events, then the arguments of the list call
DeleteParams ==
  /\ pc = "delete_params"
  /\ \E ok \in BOOLEAN :
       /\ mcalls' = Append(mcalls, ModelCall("list_parameters", ok))
       /\ IF ~ok
            THEN Finish(ModelFailure) /\ params' = params
            ELSE \E cal \in CalIds, ks \in FilterKeySets :
                   /\ params' = [made |-> TRUE, calendarId |-> cal, keys |-> ks]
                   /\ IF DeleteKeysPresent(params')
                        THEN pc' = "delete_list" /\ result' = result
                        ELSE Finish(Raised("KeyError"))
  /\ UNCHANGED <<terminal, entry, cls, rtype, handlers, allFlag, listed,
                 events, confirmed, typed, idx, lines, payload, calls, run,
                 token>>

\* delete_event: the list call, the printing of the matches and, with no
\* match, the deletion stage
DeleteList ==
  /\ pc = "delete_list"
  /\ \E ok \in BOOLEAN :
       /\ calls' = Append(calls, CalCall("list", params.calendarId, 0, params.keys, ok))
       /\ IF ~ok
            THEN /\ listed' = "err"
                 /\ events' = events
                 /\ Finish(HttpErrorOutcome)
            ELSE \E evs \in EventLists :
                   /\ listed' = "ok"
                   /\ events' = evs
                   /\ IF Len(evs) > 0
                        THEN IF AllFull(evs)
                               THEN pc' = "delete_confirm" /\ result' = result
                               ELSE Finish(Raised("KeyError"))
                        ELSE IF allFlag
                               THEN Finish(DeletedOutcome(<<>>))
                               ELSE Finish(Raised("IndexError"))
  /\ UNCHANGED <<terminal, entry, cls, rtype, handlers, allFlag, params,
                 confirmed, typed, idx, lines, payload, mcalls, run,
                 token>>

\* delete_event: the confirmation prompt
DeleteConfirm ==
  /\ pc = "delete_confirm"
  /\ \E a \in Answers :
       /\ typed' = a
       /\ IF IsConfirmed(a)
            THEN /\ confirmed' = "yes"
                 /\ idx' = 1
                 /\ pc' = IF allFlag THEN "delete_each" ELSE "delete_first"
                 /\ result' = result
            ELSE /\ confirmed' = "refused"
                 /\ idx' = idx
                 /\ Finish(NotConfirmedOutcome)
  /\ UNCHANGED <<terminal, entry, cls, rtype, handlers, allFlag, params,
                 listed, events, lines, payload, calls, mcalls, run,
                 token>>

\* delete_event without "all": one delete_event_by_id and the return
DeleteFirst ==
  /\ pc = "delete_first"
  /\ \E ok \in BOOLEAN :
       /\ calls' = Append(calls,
            CalCall("delete", CallerCalendar, SingleTarget(events).id, {}, ok))
       /\ lines' = Append(lines, DeleteLine(LeftoverEvent(events), ok))
       /\ Finish(DeletedOutcome(lines'))
  /\ UNCHANGED <<terminal, entry, cls, rtype, handlers, allFlag, params,
                 listed, events, confirmed, typed, idx, payload, mcalls,
                 run, token>>

\* delete_event with "all": one turn of the loop, and the return after the
\* last turn
DeleteEach ==
  /\ pc = "delete_each"
  /\ \E ok \in BOOLEAN :
       /\ calls' = Append(calls,
            CalCall("delete", CallerCalendar, events[idx].id, {}, ok))
       /\ lines' = Append(lines, DeleteLine(events[idx], ok))
       /\ IF DeleteAllDone(idx, Len(events), ok)
            THEN Finish(DeletedOutcome(lines')) /\ idx' = idx
            ELSE idx' = idx + 1 /\ pc' = pc /\ result' = result
  /\ UNCHANGED <<terminal, entry, cls, rtype, handlers, allFlag, params,
                 listed, events, confirmed, typed, payload, mcalls, run,
                 token>>

\* modify_event: get_calendar_events; absent keys are read as unset
ModifyParams ==
  /\ pc = "modify_params"
  /\ \E ok \in BOOLEAN :
       /\ mcalls' = Append(mcalls, ModelCall("list_parameters", ok))
       /\ IF ~ok
            THEN Finish(ModelFailure) /\ params' = params
            ELSE \E cal \in CalIds, ks \in FilterKeySets :
                   /\ params' = [made |-> TRUE, calendarId |-> cal, keys |-> ks]
                   /\ pc' = "modify_list"
                   /\ result' = result
  /\ UNCHANGED <<terminal, entry, cls, rtype, handlers, allFlag, listed,
                 events, confirmed, typed, idx, lines, payload, calls, run,
                 token>>

\* modify_event: the list call and the exactly-one-match rule
ModifyList ==
  /\ pc = "modify_list"
  /\ \E ok \in BOOLEAN :
       /\ calls' = Append(calls, CalCall("list", params.calendarId, 0, params.keys, ok))
       /\ IF ~ok
            THEN /\ listed' = "err"
                 /\ events' = events
                 /\ Finish(HttpErrorOutcome)
            ELSE \E evs \in EventLists :
                   /\ listed' = "ok"
                   /\ events' = evs
                   /\ IF MatchVerdict(Len(evs)) = "NoEvents"
                        THEN Finish(NoEventsOutcome)
                      ELSE IF MatchVerdict(Len(evs)) = "Multiple"
                        THEN Finish(MultipleOutcome)
                      ELSE IF AllFull(<<evs[1]>>)
                        THEN pc' = "modify_extract" /\ result' = result
                      ELSE Finish(Raised("KeyError"))
  /\ UNCHANGED <<terminal, entry, cls, rtype, handlers, allFlag, params,
                 confirmed, typed, idx, lines, payload, mcalls, run,
                 token>>

\* modify_event: the model call that produces the fields to change
ModifyExtract ==
  /\ pc = "modify_extract"
  /\ \E ok \in BOOLEAN :
       /\ mcalls' = Append(mcalls, ModelCall("modification", ok))
       /\ IF ~ok
            THEN Finish(ModelFailure) /\ payload' = payload
            ELSE \E ch \in ModifyChanges :
                   payload' = ch /\ pc' = "modify_patch" /\ result' = result
  /\ UNCHANGED <<terminal, entry, cls, rtype, handlers, allFlag, params,
                 listed, events, confirmed, typed, idx, lines, calls, run,
                 token>>

\* modify_event: the patch call and the return
ModifyPatch ==
  /\ pc = "modify_patch"
  /\ \E ok \in BOOLEAN :
       /\ calls' = Append(calls,
            CalCall("patch", CallerCalendar, events[1].id, payload, ok))
       /\ Finish(IF ok THEN ModifiedOutcome ELSE PatchErrorOutcome)
  /\ UNCHANGED <<terminal, entry, cls, rtype, handlers, allFlag, params,
                 listed, events, confirmed, typed, idx, lines, payload,
                 mcalls, run, token>>

Next ==
  \/ MainStart
  \/ MainQuit
  \/ MainEmpty
  \/ MainCrash
  \/ StartDispatcher
  \/ CreatePage
  \/ ModifyPage
  \/ DeletePage
  \/ SearchPage
  \/ GetCalendarEvents
  \/ MainReport
  \/ CheckIfCalendarEvent
  \/ DetermineCalendarRequestType
  \/ CreateExtract
  \/ CreateInsert
  \/ DeleteParams
  \/ DeleteList
  \/ DeleteConfirm
  \/ DeleteFirst
  \/ DeleteEach
  \/ ModifyParams
  \/ ModifyList
  \/ ModifyExtract
  \/ ModifyPatch

Spec == Init /\ [][Next]_vars

\* ------------------------------------------------------------------
\* Properties
\* ------------------------------------------------------------------

CallsOf(op) == SelectSeq(calls, LAMBDA c : c.op = op)

InsertCalls == CallsOf("insert")
PatchCalls == CallsOf("patch")
DeleteCalls == CallsOf("delete")

Handler == IF handlers = <<>> THEN "none" ELSE handlers[Len(handlers)]

\* the request has ended, and the command line loop may have reported it
Ended == pc \in {"done", "reported", "crashed"}

IsOutcome == Ended /\ result.kind = "Outcome"

\* the drop conditions of the dispatcher, as far as they have been decided
DropCondition ==
  \/ cls.made /\ (~cls.is \/ cls.conf <= Threshold)
  \/ rtype.made /\ (rtype.kind = "other" \/ rtype.conf <= Threshold)

BothGatesPassed ==
  /\ cls.made /\ cls.is /\ cls.conf > Threshold
  /\ rtype.made /\ rtype.kind # "other" /\ rtype.conf > Threshold

\* C1: a dispatcher request that meets a drop condition (not calendar
\* related, is-calendar confidence <= 0.7, type "other", or type confidence
\* <= 0.7) has ended with None, has started no handler and has made no
\* calendar adapter call.
C1_DroppedReturnsNone ==
  (entry = "dispatcher" /\ DropCondition)
    => /\ Ended
       /\ result = NoneResult
       /\ handlers = <<>>
       /\ calls = <<>>

C1_Witness ==
  /\ entry = "dispatcher"
  /\ cls.made /\ cls.is /\ cls.conf > Threshold
  /\ rtype.made /\ rtype.kind = "delete_event" /\ rtype.conf = Threshold
  /\ result = NoneResult

\* C2 as stated: over every entry point, a handler runs only after a
\* classification of the same request with confidence > 0.7.
C2_EveryEntryClassified ==
  handlers # <<>>
    => /\ cls.made /\ cls.conf > Threshold
       /\ rtype.made /\ rtype.conf > Threshold

\* C2 amended: in a dispatcher run a handler runs only after both
\* classifications of that request passed the gate (calendar related, a
\* kind other than "other", both confidences > 0.7); a page starts its
\* handler without any classification.
C2_DispatcherClassified ==
  /\ (entry = "dispatcher" /\ handlers # <<>>) => BothGatesPassed
  /\ entry = "page" => (~cls.made /\ ~rtype.made)

C2_Witness ==
  /\ entry = "dispatcher"
  /\ handlers = <<"modify">>
  /\ pc = "modify_patch"
  /\ BothGatesPassed

NewEventRequest ==
  /\ entry = "dispatcher"
  /\ cls.made /\ cls.is /\ cls.conf > Threshold
  /\ rtype.made /\ rtype.kind = "new_event" /\ rtype.conf > Threshold

ExtractReturned ==
  \E i \in 1..Len(mcalls) : mcalls[i].task = "new_event" /\ mcalls[i].ok

\* C3 as stated: every dispatcher run classified new_event above the gate
\* ends with exactly one insert call and an Outcome whose success is the
\* success of that call.
C3_AlwaysOneInsert ==
  (NewEventRequest /\ Ended)
    => /\ Len(InsertCalls) = 1
       /\ result.kind = "Outcome"
       /\ result.success = InsertCalls[1].ok

\* C3 amended: such a run makes no insert call unless the model call that
\* extracts the new event returned, never more than one, and when that
\* model call returned the run ends with exactly one insert call and an
\* Outcome whose success is the success of that call.
C3_OneInsertAfterExtract ==
  NewEventRequest
    => /\ Len(InsertCalls) <= 1
       /\ ~ExtractReturned => InsertCalls = <<>>
       /\ (Ended /\ ExtractReturned)
            => /\ Len(InsertCalls) = 1
               /\ calls = InsertCalls
               /\ result.kind = "Outcome"
               /\ result.success = InsertCalls[1].ok

C3_Witness ==
  /\ NewEventRequest
  /\ IsOutcome
  /\ Len(InsertCalls) = 1
  /\ ~InsertCalls[1].ok
  /\ ~result.success

\* C4: in the modify handler, a list call that returned no event ends the
\* request with a non-success Outcome saying no events were found; one that
\* returned two or more ends it with a non-success Outcome with the other,
\* "multiple events, be more specific" message; neither makes a patch call.
C4_ModifyNeedsOneMatch ==
  (Handler = "modify" /\ listed = "ok" /\ Len(events) # 1)
    => /\ IsOutcome
       /\ ~result.success
       /\ result.tag = (IF Len(events) = 0 THEN "NoEvents" ELSE "Multiple")
       /\ PatchCalls = <<>>

C4_Witness ==
  /\ Handler = "modify"
  /\ listed = "ok"
  /\ Len(events) = 2
  /\ IsOutcome
  /\ result.tag = "Multiple"

\* C5: in the modify handler, a list call that returned exactly one event
\* is followed by exactly one patch call, on the id of that event, whose
\* body is the value the model returned.
C5_OneMatchOnePatch ==
  (Handler = "modify" /\ listed = "ok" /\ Len(events) = 1 /\ Ended)
    => /\ Len(PatchCalls) = 1
       /\ PatchCalls[1].target = events[1].id
       /\ PatchCalls[1].body = payload

\* C6 as stated: delete handler without "all": whatever the number of
\* matches, exactly one delete call, on the first match.
C6_SingleAlwaysDeletesFirst ==
  (Handler = "delete" /\ ~allFlag /\ listed = "ok" /\ Ended)
    => /\ Len(DeleteCalls) = 1
       /\ Len(events) >= 1
       /\ DeleteCalls[1].target = events[1].id

\* C6 amended: delete handler without "all", with at least one match and
\* the deletion confirmed at the prompt: exactly one delete call, on the
\* first match, whatever the number of matches.
C6_SingleDeletesFirst ==
  (Handler = "delete" /\ ~allFlag /\ listed = "ok" /\ Len(events) >= 1
     /\ confirmed = "yes" /\ Ended)
    => /\ Len(DeleteCalls) = 1
       /\ DeleteCalls[1].target = events[1].id

C6_Witness ==
  /\ Handler = "delete"
  /\ ~allFlag
  /\ Len(events) = 2
  /\ confirmed = "yes"
  /\ Ended
  /\ Len(DeleteCalls) = 1

\* C7: in the delete handler, with or without "all", a list call that
\* returned no event ends the request with a non-success Outcome, not with
\* an exception or a success Outcome, and with no delete call.
C7_NoMatchIsFailure ==
  (Handler = "delete" /\ listed = "ok" /\ Len(events) = 0)
    => /\ IsOutcome
       /\ ~result.success
       /\ DeleteCalls = <<>>

\* C8: delete handler with "all", N matches and the deletion confirmed:
\* N delete calls, one per match in the order of the list, failed or not;
\* the Outcome has success = true and N lines, a failure line for each
\* failed call and a success line for each other call.
C8_DeleteAllAttemptsEach ==
  (Handler = "delete" /\ allFlag /\ confirmed = "yes" /\ Ended)
    => /\ Len(DeleteCalls) = Len(events)
       /\ \A i \in 1..Len(events) : DeleteCalls[i].target = events[i].id
       /\ result.kind = "Outcome"
       /\ result.success
       /\ Len(result.lines) = Len(events)
       /\ \A i \in 1..Len(events) :
            result.lines[i].failed = ~DeleteCalls[i].ok

C8_Witness ==
  /\ Handler = "delete"
  /\ allFlag
  /\ confirmed = "yes"
  /\ Ended
  /\ Len(events) = 2
  /\ Len(DeleteCalls) = 2
  /\ ~DeleteCalls[1].ok
  /\ DeleteCalls[2].ok

\* the handler whose code the request is in
RunningHandler ==
  IF pc \in {"create_extract", "create_insert"} THEN "create"
  ELSE IF pc \in {"modify_params", "modify_list", "modify_extract",
                  "modify_patch"} THEN "modify"
  ELSE IF pc \in {"delete_params", "delete_list", "delete_confirm",
                  "delete_first", "delete_each"} THEN "delete"
  ELSE "none"

ExpectedHandler ==
  IF rtype.kind = "new_event" THEN <<"create">>
  ELSE IF rtype.kind = "modify_event" THEN <<"modify">>
  ELSE <<"delete">>

\* C9: a dispatcher request past both gates is routed to exactly one
\* handler, the one of its classified kind; a dispatcher run that returns
\* None was dropped, and a routed request that returns returns an Outcome.
C9_RoutedToMatchingHandler ==
  entry = "dispatcher"
    => /\ BothGatesPassed => handlers = ExpectedHandler
       /\ RunningHandler \in {"none", Handler}
       /\ (Ended /\ result.kind = "None")
            => (handlers = <<>> /\ DropCondition)
       /\ (Ended /\ handlers # <<>> /\ result.kind # "raise")
            => result.kind = "Outcome"

C9_Witness ==
  /\ entry = "dispatcher"
  /\ BothGatesPassed
  /\ rtype.kind = "delete_event"
  /\ handlers = <<"delete">>
  /\ IsOutcome

RemoteFailure ==
  \/ \E i \in 1..Len(calls) : ~calls[i].ok
  \/ \E i \in 1..Len(mcalls) :
       /\ mcalls[i].task \in {"new_event", "list_parameters", "modification"}
       /\ ~mcalls[i].ok

\* C10: a handler in which a remote call failed, to the model service or
\* to the calendar service, returns a non-success Outcome carrying the
\* error; the failure does not leave the handler as an exception.
C10_RemoteFailureIsOutcome ==
  (Ended /\ handlers # <<>> /\ RemoteFailure)
    => /\ result.kind = "Outcome"
       /\ ~result.success

ListCalls == CallsOf("list")

FailedModelCall(task) ==
  \E i \in 1..Len(mcalls) : mcalls[i].task = task /\ ~mcalls[i].ok

\* C11: when the model call of either classification fails in a dispatcher
\* run, the failure leaves the dispatcher as it was raised: the failed
\* classification has no value, no handler is started and no calendar
\* adapter call is made.
C11_ClassifierFailurePropagates ==
  (entry = "dispatcher"
     /\ (FailedModelCall("is_calendar") \/ FailedModelCall("request_type")))
    => /\ Ended
       /\ result = Raised("ModelError")
       /\ FailedModelCall("is_calendar") => (~cls.made /\ Len(mcalls) = 1)
       /\ ~rtype.made
       /\ handlers = <<>>
       /\ calls = <<>>

C11_Witness ==
  /\ entry = "dispatcher"
  /\ cls.made
  /\ FailedModelCall("request_type")
  /\ result.kind = "raise"

\* C12: the search handler, once the model has returned the parameters,
\* makes one list call with them and returns the events of that call.
C12_SearchListsEvents ==
  (Handler = "search" /\ params.made /\ Ended)
    => /\ Len(ListCalls) = 1
       /\ ListCalls[1].cal = params.calendarId
       /\ ListCalls[1].body = params.keys
       /\ result.kind = "Events"

\* C13: the command line loop reports a None result differently from an
\* Outcome with success = false.
C13_ReportsDiffer ==
  \A a, b \in terminal :
    (a.of.kind = "None" /\ b.of.kind = "Outcome" /\ ~b.of.success)
      => a.shown # b.shown

\* C14: within a modify or delete request, a patch or delete call comes
\* after a list call of the request that succeeded and targets the id of
\* an event that call returned; when the list call fails the request ends
\* with a non-success Outcome and no patch or delete call.
C14_LocateBeforeActing ==
  /\ \A i \in 1..Len(calls) :
       calls[i].op \in {"patch", "delete"}
         => /\ listed = "ok"
            /\ \E j \in 1..(i - 1) : calls[j].op = "list" /\ calls[j].ok
            /\ \E k \in 1..Len(events) : events[k].id = calls[i].target
  /\ listed = "err"
       => /\ IsOutcome
          /\ ~result.success
          /\ PatchCalls = <<>>
          /\ DeleteCalls = <<>>

C14_Witness ==
  /\ Handler = "modify"
  /\ Len(PatchCalls) = 1
  /\ calls[1].op = "list"
  /\ PatchCalls[1].target = events[1].id

\* C15: in the delete handler, with at least one event listed, a delete
\* call is made only after the user typed y or Y at the prompt; any other
\* answer ends the request with the "not confirmed" non-success Outcome and
\* no delete call, with or without "all".
C15_DeleteNeedsYes ==
  (Handler = "delete" /\ listed = "ok" /\ Len(events) >= 1)
    => /\ DeleteCalls # <<>> => (confirmed = "yes" /\ typed \in {"y", "Y"})
       /\ confirmed = "refused" => typed \notin {"y", "Y"}
       /\ (confirmed # "no" /\ typed \notin {"y", "Y"})
            => /\ Ended
               /\ result = NotConfirmedOutcome
               /\ DeleteCalls = <<>>

C15_Witness ==
  /\ Handler = "delete"
  /\ allFlag
  /\ Len(events) = 2
  /\ typed = "yes"
  /\ result = NotConfirmedOutcome

RemoteCalls == Len(mcalls) + Len(calls)

\* a dispatcher run or a handler called by a page, not a refused button
UserAction == entry = "dispatcher" \/ (entry = "page" /\ handlers # <<>>)

\* C16 as stated: a user action makes 1 to 3 remote calls: one or two to
\* the model adapter and one or more to the calendar adapter.
C16_OneToThreeCalls ==
  (UserAction /\ Ended)
    => /\ RemoteCalls \in 1..3
       /\ Len(mcalls) \in 1..2
       /\ Len(calls) >= 1

\* C16 amended: a user action makes its remote calls one at a time; a
\* dispatcher run makes 1 to 4 model calls and at most 2 calendar calls; a
\* handler called directly makes 1 or 2 model calls and at most N + 1
\* calendar calls, N the number of events the list call returned.
C16_CallCounts ==
  /\ [](UserAction
         => /\ Ended => Len(mcalls) >= 1
            /\ entry = "dispatcher" => (Len(mcalls) <= 4 /\ Len(calls) <= 2)
            /\ entry = "page"
                 => (Len(mcalls) <= 2 /\ Len(calls) <= Len(events) + 1))
  /\ [][RemoteCalls' <= RemoteCalls + 1]_vars

C16_Witness ==
  /\ entry = "dispatcher"
  /\ Ended
  /\ Len(mcalls) = 4
  /\ Len(calls) = 2

\* C17: within a modify or delete request every calendar adapter call,
\* list included, is made on the calendar id the caller supplied.
C17_CallerCalendarEverywhere ==
  Handler \in {"modify", "delete"}
    => \A i \in 1..Len(calls) : calls[i].cal = CallerCalendar

\* C18: delete handler without "all", N >= 1 matches: the line of the
\* returned message names the event the delete call targeted.
C18_LineNamesTarget ==
  (Handler = "delete" /\ ~allFlag /\ Ended /\ DeleteCalls # <<>>)
    => /\ Len(result.lines) = 1
       /\ result.lines[1].id = DeleteCalls[1].target

\* C19: for every value of the list parameters, optional keys absent or
\* not, the delete handler and the modify handler make the same list call,
\* absent keys being unset, and neither ends before making it.
C19_SameLocate ==
  (Handler \in {"modify", "delete"} /\ params.made /\ Ended)
    => /\ calls # <<>>
       /\ calls[1].op = "list"
       /\ calls[1].cal = params.calendarId
       /\ calls[1].body = params.keys

\* C20: a delete request routed by the dispatcher runs without "all": the
\* run makes at most one delete call, however many events match.
C20_DispatcherDeletesOne ==
  entry = "dispatcher"
    => /\ ~allFlag
       /\ pc # "delete_each"
       /\ Len(DeleteCalls) <= 1

C20_Witness ==
  /\ entry = "dispatcher"
  /\ Handler = "delete"
  /\ Len(events) = 2
  /\ confirmed = "yes"
  /\ Ended
  /\ Len(DeleteCalls) = 1

\* C21: a run of main that holds usable credentials reaches its loop, a
\* run that read back a valid stored token included; in the loop a quit
\* word ends the run, an empty line calls nothing and any other line is
\* passed to the dispatcher.
C21_MainServesRequests ==
  /\ (run.at # "off" /\ run.creds = "valid") => run.reached
  /\ (AtPrompt /\ run.line \in {"", "  "}) => pc # "check"
  /\ (run.at = "loop" /\ pc = "check") => run.line = "delete the standup"
  /\ (run.reached /\ run.line \in {"quit", "Exit", " q "}) => run.at = "ended"

====
